---- MODULE Spec2Model ----
(***************************************************************************)
(* Model of social_scraper.py: the follower scraper's scheduler loop       *)
(* (main), its per-account task (worker / gather_followers), the retry     *)
(* wrappers (retry_async, _ig_retry), the extractors (tiktok_followers,    *)
(* the YouTube section, instagram_followers) and the number parser         *)
(* (digits).                                                               *)
(*                                                                         *)
(* The specifications that share the module:                               *)
(*   Spec        the scheduler, the semaphore, the account tasks and the   *)
(*               document store, with no signal delivered;                 *)
(*   SpecSignal  Spec with the handler of SIGINT and SIGTERM;              *)
(*   SpecRetry   one call of a retry wrapper on an operation whose         *)
(*               outcomes, call by call, are drawn by Init;                *)
(*   SpecTk      one call of tiktok_followers, the outcomes of the two     *)
(*               strategies drawn by Init;                                 *)
(*   SpecYt      one pass through the YouTube section of gather_followers, *)
(*               the cached id and the outcomes of the two calls drawn by  *)
(*               Init;                                                     *)
(*   SpecDigits  one call of digits on a text drawn by Init;               *)
(*   SpecIg      one call of instagram_followers, step by step, on a       *)
(*               session state drawn by Init.                              *)
(*                                                                         *)
(* Values.  A follower count is a natural number; Python's None is the     *)
(* integer None (-1), so that counts and None compare.  A timestamp        *)
(* (datetime.now) is the number of the cycle in which it is taken.         *)
(* asyncio runs one coroutine at a time, so every action is the code       *)
(* between two suspension points of one coroutine.                         *)
(***************************************************************************)
EXTENDS Integers, Sequences, FiniteSets, TLC

VARIABLES
    main_pc,        \* where main() is: dispatch, gather, sleep, exiting, terminated
    cycle,          \* number of cycles dispatched so far (the running one is the last)
    tasks,          \* tasks[k][a]: the task that cycle k created for account a
    sem,            \* asyncio.Semaphore(CONCURRENCY): its free slots
    COL,            \* the social_accounts collection: COL[a] is the document of account a
    cycle_elapsed,  \* main's local cycle_elapsed
    sleep_arg,      \* the argument of main's asyncio.sleep while it sleeps
    ig_ctx,         \* main's ig_ctx, the shared browser context: open, closing, closed
    rt,             \* SpecRetry: the wrapper call under test
    tkx,            \* SpecTk: the tiktok_followers call under test
    ytx,            \* SpecYt: the YouTube section under test
    dgx,            \* SpecDigits: the digits call under test
    igx             \* SpecIg: the instagram_followers call under test

mainvars == <<main_pc, cycle, tasks, sem, COL, cycle_elapsed, sleep_arg, ig_ctx>>

\* the calls under test, which the scheduler does not touch
harness == <<rt, tkx, ytx, dgx, igx>>

vars == <<mainvars, harness>>

(***************************************************************************)
(* Bounds of the model                                                     *)
(***************************************************************************)
NumAccounts == 3    \* verified accounts in the collection
MaxCycles == 2      \* cycles the scheduler is followed for
MaxCount == 1       \* follower counts are 0..MaxCount
MaxSkew == 1        \* cycle durations range over LOOP_EVERY -/+ MaxSkew, and 0
MaxTimes == 3       \* retry_async is called with times in 0..MaxTimes
MaxLen == 4         \* the texts given to digits have up to MaxLen characters
CONCURRENCY == 2    \* the slots of the semaphore (config.py; fewer than the accounts)

(***************************************************************************)
(* Configuration (config.py), at the defaults of social_scraper.py         *)
(***************************************************************************)
RETRIES == 3
LOOP_EVERY == 60

None == -1      \* Python's None
Exc == -2       \* the outcome "the call raised an Exception"

Counts == 0..MaxCount

\* Python truthiness of a count, a handle or None: None and 0 are falsy.
Truthy(v) == v # None /\ v # 0

Max(x, y) == IF x >= y THEN x ELSE y

(***************************************************************************)
(* digits.                                                                 *)
(*                                                                         *)
(* A text is a sequence of characters.  An int is kept as mantissa and     *)
(* power of ten, [kind |-> "int", m |-> m, e |-> e] for m * 10^e with m    *)
(* not a multiple of ten, so that a count times 10^9 stays representable.  *)
(***************************************************************************)
NNBSP == "nnbsp"        \* the character U+202F

DigitChars == {"0", "1", "2"}

Alphabet == DigitChars \cup {".", ",", "k", "M", "b", " ", NNBSP, "x"}

Texts == UNION {[1..n -> Alphabet] : n \in 0..MaxLen}

DigitVal(c) == CASE c = "0" -> 0 [] c = "1" -> 1 [] OTHER -> 2

\* str.lower on one character
Lower(c) == IF c = "M" THEN "m" ELSE c

\* txt.replace("\u202f", " ").lower()
Cleaned(txt) == [i \in DOMAIN txt |-> Lower(IF txt[i] = NNBSP THEN " " ELSE txt[i])]

\* the last index of the longest run of characters of set that starts at
\* from (from - 1 when the run is empty): a greedy `[set]*`
RunEnd(txt, from, set) ==
    CHOOSE j \in (from - 1)..Len(txt) :
        /\ \A i \in from..j : txt[i] \in set
        /\ j < Len(txt) => txt[j + 1] \notin set

RECURSIVE Norm(_, _)
Norm(m, e) ==
    IF m = 0 THEN [kind |-> "int", m |-> 0, e |-> 0]
    ELSE IF m % 10 = 0 THEN Norm(m \div 10, e + 1)
    ELSE [kind |-> "int", m |-> m, e |-> e]

RECURSIVE Pow10(_)
Pow10(n) == IF n = 0 THEN 1 ELSE 10 * Pow10(n - 1)

\* the number a sequence of digit characters writes
RECURSIVE DigitsValue(_)
DigitsValue(ds) ==
    IF ds = <<>> THEN 0
    ELSE 10 * DigitsValue(SubSeq(ds, 1, Len(ds) - 1)) + DigitVal(ds[Len(ds)])

IsDigit(c) == c \in DigitChars

IsPoint(c) == c = "."

NotPoint(c) == c # "."

\* _SUFFIX[suffix], as a power of ten
SuffixPower(suffix) ==
    CASE suffix = "k" -> 3 [] suffix = "m" -> 6 [] suffix = "b" -> 9 [] OTHER -> 0

\* int(Decimal(num_text) * 10^power): Decimal raises InvalidOperation on a
\* text with no digit or with more than one point; int() truncates
DecimalTimes(num_text, power) ==
    LET ds == SelectSeq(num_text, IsDigit)
        points == Len(SelectSeq(num_text, IsPoint))
        frac == IF points = 1
                THEN Len(num_text) - (CHOOSE i \in DOMAIN num_text : num_text[i] = ".")
                ELSE 0
    IN IF ds = <<>> \/ points > 1
       THEN [kind |-> "raise", m |-> 0, e |-> 0]
       ELSE IF power >= frac
            THEN Norm(DigitsValue(ds), power - frac)
            ELSE Norm(DigitsValue(ds) \div Pow10(frac - power), 0)

\* digits(txt): None with no match of _DIGIT_RE = ([\d.,]+)\s*([kmb]?),
\* else int(Decimal(group 1 without "." and with "," as ".") * _SUFFIX[group 2])
digits(txt) ==
    LET t == Cleaned(txt)
        starts == {i \in DOMAIN t : IsDigit(t[i]) \/ t[i] \in {".", ","}}
    IN IF starts = {}
       THEN [kind |-> "none", m |-> 0, e |-> 0]
       ELSE LET start == CHOOSE i \in starts : \A j \in starts : i <= j
                last == RunEnd(t, start, DigitChars \cup {".", ","})
                blank == RunEnd(t, last + 1, {" "})
                suffix == IF blank < Len(t) /\ t[blank + 1] \in {"k", "m", "b"}
                          THEN t[blank + 1] ELSE ""
                unpointed == SelectSeq(SubSeq(t, start, last), NotPoint)
                num_text == [i \in DOMAIN unpointed |->
                                IF unpointed[i] = "," THEN "." ELSE unpointed[i]]
            IN DecimalTimes(num_text, SuffixPower(suffix))

(***************************************************************************)
(* The retry wrappers.                                                     *)
(*                                                                         *)
(* The wrapped operation is given by its script: script[i] is the outcome  *)
(* of its i-th call, Exc when that call raises and its return value        *)
(* otherwise.  A wrapper call yields the value it returns (ret), whether   *)
(* it lets an exception through to its caller (raised), and the sequence   *)
(* of calls of the operation and of asyncio.sleep it makes (trace).        *)
(***************************************************************************)
Outcomes(vals) == {Exc, None} \cup vals

Scripts(vals, n) == [1..n -> Outcomes(vals)]

\* wrapper of retry_async(times): for attempt in range(1, times + 1)
RECURSIVE retry_async_wrapper(_, _, _, _)
retry_async_wrapper(times, script, attempt, trace) ==
    IF attempt > times
    THEN [ret |-> None, raised |-> FALSE, trace |-> trace]
    ELSE LET called == Append(trace, <<"call", attempt>>) IN
         IF script[attempt] # Exc
         THEN [ret |-> script[attempt], raised |-> FALSE, trace |-> called]
         ELSE IF attempt = times
              THEN [ret |-> None, raised |-> FALSE, trace |-> called]
              ELSE retry_async_wrapper(times, script, attempt + 1,
                                       Append(called, <<"sleep", attempt>>))

\* retry_async whose exhausted wrapper re-raises instead of returning None
RECURSIVE retry_async_reraise_wrapper(_, _, _, _)
retry_async_reraise_wrapper(times, script, attempt, trace) ==
    IF attempt > times
    THEN [ret |-> None, raised |-> FALSE, trace |-> trace]
    ELSE LET called == Append(trace, <<"call", attempt>>) IN
         IF script[attempt] # Exc
         THEN [ret |-> script[attempt], raised |-> FALSE, trace |-> called]
         ELSE IF attempt = times
              THEN [ret |-> None, raised |-> TRUE, trace |-> called]
              ELSE retry_async_reraise_wrapper(times, script, attempt + 1,
                                               Append(called, <<"sleep", attempt>>))

retry_async_reraise(times, script) ==
    retry_async_reraise_wrapper(times, script, 1, <<>>)

\* retry_async whose wrapper retries at once, its sleep never awaited
RECURSIVE retry_async_nosleep_wrapper(_, _, _, _)
retry_async_nosleep_wrapper(times, script, attempt, trace) ==
    IF attempt > times
    THEN [ret |-> None, raised |-> FALSE, trace |-> trace]
    ELSE LET called == Append(trace, <<"call", attempt>>) IN
         IF script[attempt] # Exc
         THEN [ret |-> script[attempt], raised |-> FALSE, trace |-> called]
         ELSE IF attempt = times
              THEN [ret |-> None, raised |-> FALSE, trace |-> called]
              ELSE retry_async_nosleep_wrapper(times, script, attempt + 1, called)

retry_async_nosleep(times, script) ==
    retry_async_nosleep_wrapper(times, script, 1, <<>>)

\* A call of a function decorated with @retry_async(times=times).
retry_async(times, script) ==
    retry_async_wrapper(times, script, 1, <<>>)

\* wrapper of _ig_retry: for attempt in range(1, RETRIES + 1)
RECURSIVE ig_retry_wrapper(_, _, _)
ig_retry_wrapper(script, attempt, trace) ==
    IF attempt > RETRIES
    THEN [ret |-> None, raised |-> FALSE, trace |-> trace]
    ELSE LET called == Append(trace, <<"call", attempt>>) IN
         IF script[attempt] # Exc
         THEN [ret |-> script[attempt], raised |-> FALSE, trace |-> called]
         ELSE IF attempt = RETRIES
              THEN [ret |-> None, raised |-> FALSE, trace |-> called]
              ELSE ig_retry_wrapper(script, attempt + 1,
                                    Append(called, <<"sleep", attempt>>))

\* A call of a function decorated with @_ig_retry.
_ig_retry(script) ==
    ig_retry_wrapper(script, 1, <<>>)

\* What a function decorated with @retry_async(times=RETRIES) can return,
\* its undecorated body returning None or a value of vals, or raising.
RetryReturns(vals) ==
    {retry_async(RETRIES, s).ret : s \in Scripts(vals, RETRIES)}

\* What a function decorated with @_ig_retry can return.
IgRetryReturns(vals) ==
    {_ig_retry(s).ret : s \in Scripts(vals, RETRIES)}

(***************************************************************************)
(* The TikTok extractor                                                    *)
(***************************************************************************)
\* tiktok_followers: `await _tk_html(user) or await _tk_api(user)`.  Both
\* strategies are decorated with @retry_async(times=RETRIES); Python's `or`
\* evaluates its right operand when the left one is falsy.
tiktok_followers(html_script, api_script) ==
    LET html == retry_async(RETRIES, html_script).ret IN
    IF Truthy(html)
    THEN [ret |-> html, html |-> html, api_called |-> FALSE, api |-> None]
    ELSE LET api == retry_async(RETRIES, api_script).ret IN
         [ret |-> api, html |-> html, api_called |-> TRUE, api |-> api]

\* What the extractors can return to gather_followers.
TkFollowersReturns ==
    {tiktok_followers(h, x).ret :
        h \in Scripts(Counts, RETRIES), x \in Scripts(Counts, RETRIES)}

IgFollowersReturns == IgRetryReturns(Counts)

YtSubscribersReturns == RetryReturns(Counts)

(***************************************************************************)
(* The document store                                                      *)
(***************************************************************************)
Accounts == 1..NumAccounts      \* the verified accounts
Unverified == 0                 \* one account that is not verified

AllAccounts == Accounts \cup {Unverified}

\* The platforms an account is registered with (register_user.py asks for
\* one handle per platform and requires at least one).
Registered(a) ==
    CASE a % 4 = 1 -> {"tiktok", "instagram", "youtube"}
      [] a % 4 = 2 -> {"youtube"}
      [] a % 4 = 3 -> {"tiktok"}
      [] OTHER -> {"instagram"}

Handle(a) == 100 + a

\* The document register_user.py inserts.
new_doc(a) ==
    [_id |-> a,
     email |-> a,
     youtube_id |-> IF "youtube" \in Registered(a) THEN Handle(a) ELSE None,
     instagram_id |-> IF "instagram" \in Registered(a) THEN Handle(a) ELSE None,
     tiktok_id |-> IF "tiktok" \in Registered(a) THEN Handle(a) ELSE None,
     verified |-> a # Unverified,
     last_updated |-> 0]

\* dict.get(key): None when the key is missing
Get(d, key) == IF key \in DOMAIN d THEN d[key] ELSE None

\* an update that writes only the keys the document does not have yet
SetOnInsert(d, upd) ==
    [key \in DOMAIN d \cup DOMAIN upd |->
        IF key \in DOMAIN d THEN d[key] ELSE upd[key]]

\* Mongo's {"$set": upd} on document d
Set(d, upd) ==
    [key \in DOMAIN d \cup DOMAIN upd |->
        IF key \in DOMAIN upd THEN upd[key] ELSE d[key]]

\* upd[key] = value on a Python dict
Assign(upd, key, value) ==
    [k \in DOMAIN upd \cup {key} |-> IF k = key THEN value ELSE upd[k]]

\* COL.find({"verified": True})
find_verified == {a \in DOMAIN COL : COL[a]["verified"]}

\* The channel id the YouTube search gives for a handle.
ChannelId(handle) == handle + 100

(***************************************************************************)
(* The account tasks                                                       *)
(***************************************************************************)
NoDoc == [_id |-> None]

EmptyDict == [key \in {} |-> None]

\* A task as asyncio.create_task(worker(document)) leaves it.
NewTask(document) ==
    [pc |-> "pending", slot |-> FALSE, document |-> document,
     upd |-> EmptyDict, ig_followers |-> None, err |-> "none", unknown |-> {},
     returned |-> EmptyDict, resolved |-> None, updates |-> 0]

\* A task that is over: its frame, with document and upd, is gone.  err is
\* the call whose exception ended it; unknown (history) keeps the platforms
\* whose extraction returned None.  History as well: returned, what each
\* extractor called gave back; resolved, the channel id a search call found;
\* updates, the COL.update_one calls that went through.
Ended(pc, err, unknown) ==
    [pc |-> pc, slot |-> FALSE, document |-> NoDoc,
     upd |-> EmptyDict, ig_followers |-> None, err |-> err, unknown |-> unknown,
     returned |-> EmptyDict, resolved |-> None, updates |-> 0]

\* unknown after platform's extraction has returned value
Noted(unknown, platform, value) ==
    IF value = None THEN unknown \cup {platform} ELSE unknown

Live == {"pending", "tiktok", "ig_new_page", "ig_fetch", "ig_close", "youtube"}

\* the positions inside gather_followers
Inside == Live \ {"pending"}

\* The sections of gather_followers an account's document asks for, in order.
AfterInstagram(d) == IF Truthy(Get(d, "youtube_id")) THEN "youtube" ELSE "write"

AfterTikTok(d) == IF Truthy(Get(d, "instagram_id")) THEN "ig_new_page" ELSE AfterInstagram(d)

\* gather_followers entering the TikTok section whatever the document holds
FirstSectionAlwaysTikTok(d) == "tiktok"

FirstSection(d) == IF Truthy(Get(d, "tiktok_id")) THEN "tiktok" ELSE AfterTikTok(d)

\* The tasks there are: <<k, a>> is the task cycle k created for account a.
TaskIds == {<<k, a>> : k \in DOMAIN tasks, a \in Accounts}

Task(t) == tasks[t[1]][t[2]]

\* datetime.now(timezone.utc)
now == cycle

(***************************************************************************)
(* Semaphore and task bookkeeping                                          *)
(***************************************************************************)
\* worker that enters gather_followers without waiting for a slot
CanAcquireAlways(value) == TRUE

\* `async with sem`, entry: the task goes on when a slot is free
CanAcquire(value) == value > 0

\* an exit by exception that leaves the slot taken (acquire/release without finally)
ReleaseSkipped(value) == value

\* `async with sem`, exit by an exception: the slot is given back
ReleaseOnRaise(value) == value + 1

\* `async with sem`, normal exit
ReleaseOnReturn(value) == value + 1

SetTask(t, r) == [tasks EXCEPT ![t[1]][t[2]] = r]

\* The task moves on inside gather_followers.
Step(t, r) ==
    /\ tasks' = SetTask(t, r)
    /\ UNCHANGED <<main_pc, cycle, sem, COL, cycle_elapsed, sleep_arg, ig_ctx, harness>>

\* An exception leaves gather_followers and worker: the task ends with it.
Raise(t, err) ==
    /\ tasks' = SetTask(t, Ended("failed", err, {}))
    /\ sem' = ReleaseOnRaise(sem)
    /\ UNCHANGED <<main_pc, cycle, COL, cycle_elapsed, sleep_arg, ig_ctx, harness>>

\* The event loop runs tasks until asyncio.run has cancelled what is left.
LoopRunning == main_pc # "terminated"

\* gather_followers, the end: upd["last_updated"], COL.update_one, return.
\* No await separates it from the section before it.
gather_write(t, r) ==
    LET upd == Assign(r.upd, "last_updated", now)
        id == Task(t).document["_id"]
    IN \E ok \in BOOLEAN :
         IF ok
         THEN /\ COL' = [COL EXCEPT ![id] = Set(@, upd)]
              /\ tasks' = SetTask(t, [Ended("done", "none", r.unknown) EXCEPT
                                        !.returned = r.returned,
                                        !.resolved = r.resolved,
                                        !.updates = r.updates + 1])
              /\ sem' = ReleaseOnReturn(sem)
              /\ UNCHANGED <<main_pc, cycle, cycle_elapsed, sleep_arg, ig_ctx, harness>>
         ELSE Raise(t, "update_one")

\* The task goes on to its next section, or to the end of gather_followers.
Proceed(t, r) ==
    IF r.pc = "write" THEN gather_write(t, r) ELSE Step(t, r)

(***************************************************************************)
(* worker and gather_followers, one action per stretch between awaits      *)
(***************************************************************************)
\* worker: async with sem
worker_acquire(t) ==
    /\ LoopRunning
    /\ Task(t).pc = "pending"
    /\ CanAcquire(sem)
    /\ sem' = sem - 1
    /\ tasks' = SetTask(t, [Task(t) EXCEPT !.pc = FirstSection(Task(t).document),
                                           !.slot = TRUE])
    /\ UNCHANGED <<main_pc, cycle, COL, cycle_elapsed, sleep_arg, ig_ctx, harness>>

\* gather_followers, TikTok section
gather_tiktok(t) ==
    /\ LoopRunning
    /\ Task(t).pc = "tiktok"
    /\ \E tk_followers \in TkFollowersReturns :
        Proceed(t, [Task(t) EXCEPT
            !.upd = Assign(@, "tiktok_stats",
                           [followers |-> tk_followers, updated_at |-> now]),
            !.unknown = Noted(@, "tiktok", tk_followers),
            !.returned = Assign(@, "tiktok", tk_followers),
            !.pc = AfterTikTok(Task(t).document)])

\* ctx.new_page() returns a page or raises; on a closed context it raises
NewPageOutcomes == IF ig_ctx = "closed" THEN {FALSE} ELSE BOOLEAN

\* what instagram_followers can return on a page of the context: every
\* page operation on a closed context raises inside the retry wrappers
PageFollowersReturns == IF ig_ctx = "closed" THEN {None} ELSE IgFollowersReturns

\* gather_followers, Instagram section: page = await ctx.new_page()
gather_ig_new_page(t) ==
    /\ LoopRunning
    /\ Task(t).pc = "ig_new_page"
    /\ \E ok \in NewPageOutcomes :
        IF ok
        THEN Step(t, [Task(t) EXCEPT !.pc = "ig_fetch"])
        ELSE Raise(t, "new_page")

\* gather_followers, Instagram section: await instagram_followers(page, ig)
gather_ig_fetch(t) ==
    /\ LoopRunning
    /\ Task(t).pc = "ig_fetch"
    /\ \E ig_followers \in PageFollowersReturns :
        Step(t, [Task(t) EXCEPT !.ig_followers = ig_followers, !.pc = "ig_close"])

\* gather_followers, Instagram section: await page.close(), then upd
gather_ig_close(t) ==
    /\ LoopRunning
    /\ Task(t).pc = "ig_close"
    /\ \E ok \in BOOLEAN :
        IF ok
        THEN Proceed(t, [Task(t) EXCEPT
                !.upd = Assign(@, "instagram_stats",
                               [followers |-> Task(t).ig_followers, updated_at |-> now]),
                !.unknown = Noted(@, "instagram", Task(t).ig_followers),
                !.returned = Assign(@, "instagram", Task(t).ig_followers),
                !.pc = AfterInstagram(Task(t).document)])
        ELSE Raise(t, "page_close")

\* upd after the YouTube section, for the channel id cid and the count subs
youtube_upd(upd, cid, subs) ==
    IF subs # None
    THEN Assign(Assign(upd, "youtube_channel_id", cid),
                "youtube_stats", [subscribers |-> subs, updated_at |-> now])
    ELSE upd

\* the YouTube section calling yt_channel_id whatever the document caches
youtube_section_always_search(cached, search_ret, stats_ret) ==
    [search_called |-> TRUE, cid |-> search_ret,
     stats_called |-> Truthy(search_ret),
     subs |-> IF Truthy(search_ret) THEN stats_ret ELSE None]

\* The two calls of the YouTube section, for the channel id the document
\* caches and for what yt_channel_id and yt_subscribers return if called:
\*   cid = doc.get("youtube_channel_id") or await yt_channel_id(yh)
\*   subs = await yt_subscribers(cid) if cid else None
youtube_section(cached, search_ret, stats_ret) ==
    LET cid == IF Truthy(cached) THEN cached ELSE search_ret
    IN [search_called |-> ~Truthy(cached), cid |-> cid,
        stats_called |-> Truthy(cid),
        subs |-> IF Truthy(cid) THEN stats_ret ELSE None]

\* gather_followers, YouTube section
gather_youtube(t) ==
    /\ LoopRunning
    /\ Task(t).pc = "youtube"
    /\ LET d == Task(t).document
           cached == Get(d, "youtube_channel_id")
           found == RetryReturns({ChannelId(Get(d, "youtube_id"))})
       IN \E search_ret \in found, stats_ret \in YtSubscribersReturns :
            LET y == youtube_section(cached, search_ret, stats_ret)
            IN Proceed(t, [Task(t) EXCEPT
                    !.upd = youtube_upd(@, y.cid, y.subs),
                    !.unknown = Noted(@, "youtube", y.subs),
                    !.returned = Assign(@, "youtube", y.subs),
                    !.resolved = IF y.search_called THEN y.cid ELSE None,
                    !.pc = "write"])

(***************************************************************************)
(* main                                                                    *)
(***************************************************************************)
Durations == {0} \cup ((LOOP_EVERY - MaxSkew)..(LOOP_EVERY + MaxSkew))

\* asyncio.gather returning as soon as one task has ended
gather_first_completed(batch) == \E a \in DOMAIN batch : batch[a].pc = "done"

\* main going on to the sleep without awaiting its tasks
gather_without_await(batch) == TRUE

\* await asyncio.gather(*tasks) returns: every task has returned
gather_returns(batch) == \A a \in DOMAIN batch : batch[a].pc = "done"

\* await asyncio.gather(*tasks) raises: the first exception of a task
gather_raises(batch) == \E a \in DOMAIN batch : batch[a].pc = "failed"

\* the pause without its floor at zero
sleep_unclamped(elapsed) == LOOP_EVERY - elapsed

\* the argument of asyncio.sleep: max(0, LOOP_EVERY - cycle_elapsed)
sleep_time(elapsed) == Max(0, LOOP_EVERY - elapsed)

\* `tasks = []`: the batch before is dropped, and its history with it
Forgotten(ts) ==
    [k \in DOMAIN ts |-> [a \in DOMAIN ts[k] |->
        [ts[k][a] EXCEPT !.unknown = {}, !.returned = EmptyDict,
                         !.resolved = None, !.updates = 0]]]

\* main, top of the loop: COL.find and one create_task per document
main_dispatch ==
    /\ main_pc = "dispatch"
    /\ cycle < MaxCycles
    /\ \E ok \in BOOLEAN :
        IF ok
        THEN /\ tasks' = Append(Forgotten(tasks), [a \in find_verified |-> NewTask(COL[a])])
             /\ cycle' = cycle + 1
             /\ main_pc' = "gather"
        ELSE /\ main_pc' = "exiting"
             /\ UNCHANGED <<tasks, cycle>>
    /\ UNCHANGED <<sem, COL, cycle_elapsed, sleep_arg, ig_ctx, harness>>

\* main: gather returns, cycle_elapsed is taken, the sleep starts
main_gather_returns ==
    /\ main_pc = "gather"
    /\ gather_returns(tasks[cycle])
    /\ \E elapsed \in Durations :
        /\ cycle_elapsed' = elapsed
        /\ sleep_arg' = sleep_time(elapsed)
    /\ main_pc' = "sleep"
    /\ UNCHANGED <<cycle, tasks, sem, COL, ig_ctx, harness>>

\* main: gather raises a task's exception, which nothing in main catches
main_gather_raises ==
    /\ main_pc = "gather"
    /\ gather_raises(tasks[cycle])
    /\ main_pc' = "exiting"
    /\ UNCHANGED <<cycle, tasks, sem, COL, cycle_elapsed, sleep_arg, ig_ctx, harness>>

\* main: the sleep is over (cycle_elapsed is dead from here on and cleared)
main_sleep_done ==
    /\ main_pc = "sleep"
    /\ main_pc' = "dispatch"
    /\ cycle_elapsed' = 0
    /\ sleep_arg' = 0
    /\ UNCHANGED <<cycle, tasks, sem, COL, ig_ctx, harness>>

\* asyncio.run after main has raised: every task left is cancelled, and a
\* cancelled task leaves `async with sem` as by any exception
main_exit ==
    /\ main_pc = "exiting"
    /\ main_pc' = "terminated"
    /\ tasks' = [k \in DOMAIN tasks |-> [a \in DOMAIN tasks[k] |->
                    IF tasks[k][a].pc \in Live
                    THEN Ended("cancelled", "none", {})
                    ELSE tasks[k][a]]]
    /\ sem' = sem + Cardinality({t \in TaskIds : Task(t).pc \in Live /\ Task(t).slot})
    /\ UNCHANGED <<cycle, COL, cycle_elapsed, sleep_arg, ig_ctx, harness>>

(***************************************************************************)
(* Specification of the scheduler                                          *)
(***************************************************************************)
RtIdle ==
    [kind |-> "none", times |-> 0, script |-> <<>>, called |-> FALSE,
     out |-> [ret |-> None, raised |-> FALSE, trace |-> <<>>]]

TkIdle ==
    [html_script |-> <<>>, api_script |-> <<>>, called |-> FALSE,
     out |-> [ret |-> None, html |-> None, api_called |-> FALSE, api |-> None]]

YtIdle ==
    [cached |-> None, search_script |-> <<>>, stats_script |-> <<>>, called |-> FALSE,
     out |-> [search_called |-> FALSE, cid |-> None, stats_called |-> FALSE,
              subs |-> None]]

DgIdle == [txt |-> <<>>, called |-> FALSE, out |-> [kind |-> "none", m |-> 0, e |-> 0]]

IgIdle == [pc |-> "idle"]

InitMain ==
    /\ main_pc = "dispatch"
    /\ cycle = 0
    /\ tasks = <<>>
    /\ sem = CONCURRENCY
    /\ COL = [a \in AllAccounts |-> new_doc(a)]
    /\ cycle_elapsed = 0
    /\ sleep_arg = 0
    /\ ig_ctx = "open"

Init ==
    /\ InitMain
    /\ rt = RtIdle
    /\ tkx = TkIdle
    /\ ytx = YtIdle
    /\ dgx = DgIdle
    /\ igx = IgIdle

Next ==
    \/ main_dispatch
    \/ main_gather_returns
    \/ main_gather_raises
    \/ main_sleep_done
    \/ main_exit
    \/ \E t \in TaskIds : worker_acquire(t)
    \/ \E t \in TaskIds : gather_tiktok(t)
    \/ \E t \in TaskIds : gather_ig_new_page(t)
    \/ \E t \in TaskIds : gather_ig_fetch(t)
    \/ \E t \in TaskIds : gather_ig_close(t)
    \/ \E t \in TaskIds : gather_youtube(t)

Spec == Init /\ [][Next]_vars

(***************************************************************************)
(* Specification of the scheduler with SIGINT and SIGTERM                  *)
(***************************************************************************)
\* The handler main installs for SIGINT and SIGTERM runs:
\*   lambda sig=sig: asyncio.create_task(ig_ctx.close())
\* It creates the task that closes the context and does nothing else.
signal_handler ==
    /\ LoopRunning
    /\ ig_ctx = "open"
    /\ ig_ctx' = "closing"
    /\ UNCHANGED <<main_pc, cycle, tasks, sem, COL, cycle_elapsed, sleep_arg, harness>>

\* the task of ig_ctx.close() runs to its end
ig_ctx_close ==
    /\ LoopRunning
    /\ ig_ctx = "closing"
    /\ ig_ctx' = "closed"
    /\ UNCHANGED <<main_pc, cycle, tasks, sem, COL, cycle_elapsed, sleep_arg, harness>>

NextSignal ==
    \/ Next
    \/ signal_handler
    \/ ig_ctx_close

SpecSignal == Init /\ [][NextSignal]_vars

(***************************************************************************)
(* Specification of one retry wrapper call                                 *)
(***************************************************************************)
RetryInputs ==
    UNION {{[kind |-> "retry_async", times |-> n, script |-> s, called |-> FALSE,
             out |-> RtIdle.out] : s \in Scripts(Counts, n)} : n \in 0..MaxTimes}
    \cup {[kind |-> "_ig_retry", times |-> RETRIES, script |-> s, called |-> FALSE,
           out |-> RtIdle.out] : s \in Scripts(Counts, RETRIES)}

InitRetry ==
    /\ InitMain
    /\ tkx = TkIdle
    /\ ytx = YtIdle
    /\ dgx = DgIdle
    /\ igx = IgIdle
    /\ rt \in RetryInputs

\* the function decorated with @retry_async(times=rt.times) is called
retry_async_call ==
    /\ rt.kind = "retry_async"
    /\ ~rt.called
    /\ rt' = [rt EXCEPT !.called = TRUE, !.out = retry_async(rt.times, rt.script)]
    /\ UNCHANGED <<mainvars, tkx, ytx, dgx, igx>>

\* the function decorated with @_ig_retry is called
ig_retry_call ==
    /\ rt.kind = "_ig_retry"
    /\ ~rt.called
    /\ rt' = [rt EXCEPT !.called = TRUE, !.out = _ig_retry(rt.script)]
    /\ UNCHANGED <<mainvars, tkx, ytx, dgx, igx>>

NextRetry ==
    \/ retry_async_call
    \/ ig_retry_call

SpecRetry == InitRetry /\ [][NextRetry]_vars

(***************************************************************************)
(* Specification of one tiktok_followers call                              *)
(***************************************************************************)
InitTk ==
    /\ InitMain
    /\ rt = RtIdle
    /\ ytx = YtIdle
    /\ dgx = DgIdle
    /\ igx = IgIdle
    /\ tkx \in {[html_script |-> h, api_script |-> x, called |-> FALSE,
                 out |-> TkIdle.out] :
                    h \in Scripts(Counts, RETRIES), x \in Scripts(Counts, RETRIES)}

tiktok_followers_call ==
    /\ ~tkx.called
    /\ tkx' = [tkx EXCEPT !.called = TRUE,
                          !.out = tiktok_followers(tkx.html_script, tkx.api_script)]
    /\ UNCHANGED <<mainvars, rt, ytx, dgx, igx>>

NextTk == tiktok_followers_call

SpecTk == InitTk /\ [][NextTk]_vars

(***************************************************************************)
(* Specification of one pass through the YouTube section                   *)
(***************************************************************************)
\* what doc.get("youtube_channel_id") can give: nothing, or the id a cycle
\* before has written
CachedIds == {None, ChannelId(Handle(2))}

InitYt ==
    /\ InitMain
    /\ rt = RtIdle
    /\ tkx = TkIdle
    /\ dgx = DgIdle
    /\ igx = IgIdle
    /\ ytx \in {[cached |-> c, search_script |-> s, stats_script |-> x,
                 called |-> FALSE, out |-> YtIdle.out] :
                    c \in CachedIds,
                    s \in Scripts({ChannelId(Handle(2))}, RETRIES),
                    x \in Scripts(Counts, RETRIES)}

\* what yt_channel_id returns in this pass, when it is called
SearchReturn == retry_async(RETRIES, ytx.search_script).ret

\* what yt_subscribers returns in this pass, when it is called
StatsReturn == retry_async(RETRIES, ytx.stats_script).ret

youtube_section_call ==
    /\ ~ytx.called
    /\ ytx' = [ytx EXCEPT !.called = TRUE,
                          !.out = youtube_section(ytx.cached, SearchReturn, StatsReturn)]
    /\ UNCHANGED <<mainvars, rt, tkx, dgx, igx>>

NextYt == youtube_section_call

SpecYt == InitYt /\ [][NextYt]_vars

(***************************************************************************)
(* Specification of one digits call                                        *)
(***************************************************************************)
InitDigits ==
    /\ InitMain
    /\ rt = RtIdle
    /\ tkx = TkIdle
    /\ ytx = YtIdle
    /\ igx = IgIdle
    /\ dgx \in {[txt |-> t, called |-> FALSE, out |-> DgIdle.out] : t \in Texts}

digits_call ==
    /\ ~dgx.called
    /\ dgx' = [dgx EXCEPT !.called = TRUE, !.out = digits(dgx.txt)]
    /\ UNCHANGED <<mainvars, rt, tkx, ytx, igx>>

NextDigits == digits_call

SpecDigits == InitDigits /\ [][NextDigits]_vars

(***************************************************************************)
(* Specification of one instagram_followers call                           *)
(*                                                                         *)
(* The session is the login state the persistent context of                *)
(* launch_persistent_context(USER_DATA) keeps on disk: none yet, valid, or *)
(* expired.  Instagram answers a navigation without a valid session with   *)
(* its login form.  outer and inner are the attempts of the _ig_retry      *)
(* wrappers of instagram_followers and of _ensure_profile.  History:       *)
(* session0, authenticated, submitted, navigations, logins.                *)
(***************************************************************************)
Sessions == {"none", "valid", "expired"}

IgStart(session) ==
    [pc |-> "goto", session |-> session, session0 |-> session,
     outer |-> 1, inner |-> 1, page |-> "blank",
     authenticated |-> FALSE, submitted |-> FALSE,
     navigations |-> 0, logins |-> 0, ret |-> None]

InitIg ==
    /\ InitMain
    /\ rt = RtIdle
    /\ tkx = TkIdle
    /\ ytx = YtIdle
    /\ dgx = DgIdle
    /\ igx \in {IgStart(s) : s \in Sessions}

\* instagram_followers' wrapper catches an exception of attempt x.outer
followers_raises(x) ==
    IF x.outer = RETRIES
    THEN [x EXCEPT !.pc = "returned", !.ret = None]
    ELSE [x EXCEPT !.pc = "goto", !.outer = @ + 1, !.inner = 1]

\* a wrapper of _ensure_profile that makes one attempt more than RETRIES
ensure_raises_once_more(x) ==
    IF x.inner = RETRIES + 1
    THEN [x EXCEPT !.pc = "inner_text"]
    ELSE [x EXCEPT !.pc = "goto", !.inner = @ + 1]

\* _ensure_profile's wrapper catches an exception of attempt x.inner; after
\* the last attempt _ensure_profile returns None and instagram_followers
\* goes on to the locator
ensure_raises(x) ==
    IF x.inner = RETRIES
    THEN [x EXCEPT !.pc = "inner_text"]
    ELSE [x EXCEPT !.pc = "goto", !.inner = @ + 1]

\* _ensure_profile: await page.goto(...)
ig_goto ==
    /\ igx.pc = "goto"
    /\ \E ok \in BOOLEAN :
        LET x == [igx EXCEPT !.navigations = @ + 1, !.submitted = FALSE,
                             !.authenticated = (igx.session = "valid")]
        IN igx' = IF ok
                  THEN [x EXCEPT !.pc = "cookies",
                                 !.page = IF igx.session = "valid"
                                          THEN "profile" ELSE "login"]
                  ELSE ensure_raises(x)
    /\ UNCHANGED <<mainvars, rt, tkx, ytx, dgx>>

\* _ensure_profile: await _accept_cookies(page); a TimeoutError is suppressed
ig_accept_cookies ==
    /\ igx.pc = "cookies"
    /\ \E ok \in BOOLEAN :
        igx' = IF ok THEN [igx EXCEPT !.pc = "login"] ELSE ensure_raises(igx)
    /\ UNCHANGED <<mainvars, rt, tkx, ytx, dgx>>

\* _login_if_needed filling the form in whatever the page shows
login_always(page) == TRUE

\* _login_if_needed: if await page.is_visible("input[name='username']")
login_needed(page) == page = "login"

\* _ensure_profile: await _login_if_needed(page).  A fill can raise before
\* the credentials are sent; once sent, Instagram accepts or rejects them.
ig_login_if_needed ==
    /\ igx.pc = "login"
    /\ IF login_needed(igx.page)
       THEN \E outcome \in {"raise", "accepted", "rejected"}, after \in {"profile", "other"} :
              igx' = CASE outcome = "raise" -> ensure_raises(igx)
                       [] outcome = "accepted" ->
                            [igx EXCEPT !.pc = "wait_selector", !.logins = @ + 1,
                                        !.submitted = TRUE, !.session = "valid",
                                        !.page = after]
                       [] OTHER ->
                            [igx EXCEPT !.pc = "wait_selector", !.logins = @ + 1,
                                        !.submitted = TRUE]
       ELSE igx' = [igx EXCEPT !.pc = "wait_selector"]
    /\ UNCHANGED <<mainvars, rt, tkx, ytx, dgx>>

\* _ensure_profile: await page.wait_for_selector(FOLLOWERS_LOC, timeout=15_000)
ig_wait_for_selector ==
    /\ igx.pc = "wait_selector"
    /\ \E ok \in (IF igx.page = "profile" THEN BOOLEAN ELSE {FALSE}) :
        igx' = IF ok THEN [igx EXCEPT !.pc = "inner_text"] ELSE ensure_raises(igx)
    /\ UNCHANGED <<mainvars, rt, tkx, ytx, dgx>>

\* instagram_followers: txt = await page.locator(FOLLOWERS_LOC).inner_text()
\* and return digits(txt); Exc when one of the two raises
ig_inner_text ==
    /\ igx.pc = "inner_text"
    /\ \E r \in (IF igx.page = "profile" THEN Outcomes(Counts) ELSE {Exc}) :
        igx' = IF r = Exc
               THEN followers_raises(igx)
               ELSE [igx EXCEPT !.pc = "returned", !.ret = r]
    /\ UNCHANGED <<mainvars, rt, tkx, ytx, dgx>>

NextIg ==
    \/ ig_goto
    \/ ig_accept_cookies
    \/ ig_login_if_needed
    \/ ig_wait_for_selector
    \/ ig_inner_text

SpecIg == InitIg /\ [][NextIg]_vars

(***************************************************************************)
(* Properties                                                              *)
(***************************************************************************)
InsideNow == {t \in TaskIds : Task(t).pc \in Inside}

Holders == {t \in TaskIds : Task(t).slot}

BatchOver == cycle >= 1 /\ \A t \in TaskIds : Task(t).pc \notin Live

\* C1: at most CONCURRENCY account tasks are inside gather_followers at the
\* same time, however many tasks the cycle has created.
C1_AtMostNInside == Cardinality(InsideNow) <= CONCURRENCY

\* C1 witness: every slot is taken and a further task of the batch waits.
C1_Witness ==
    /\ Cardinality(InsideNow) = CONCURRENCY
    /\ \E t \in TaskIds : Task(t).pc = "pending"

\* C2: cycles never overlap: while a task of an earlier cycle is pending or
\* running, no task of a later cycle exists; every task of a cycle before
\* the last dispatched one has returned, failed or been cancelled.
C2_CyclesNeverOverlap ==
    \A t \in TaskIds : t[1] < cycle => Task(t).pc \notin Live

\* C2 witness: a task of the second cycle runs, the first cycle's batch over.
C2_Witness ==
    /\ cycle = 2
    /\ \E t \in TaskIds : t[1] = 2 /\ Task(t).pc \in Inside
    /\ \A t \in TaskIds : t[1] = 1 => Task(t).pc = "done"

StatsKey(platform) ==
    CASE platform = "tiktok" -> "tiktok_stats"
      [] platform = "instagram" -> "instagram_stats"
      [] OTHER -> "youtube_stats"

CountField(platform) == IF platform = "youtube" THEN "subscribers" ELSE "followers"

\* C3: when a platform's extraction of an account returned None in a cycle,
\* then after the task's merge-update the stats stored for that platform are
\* None with this cycle's timestamp: no value of an earlier cycle stays.
C3_FailedExtractionStoresNull ==
    \A t \in TaskIds :
        (t[1] = cycle /\ Task(t).pc = "done") =>
            \A p \in Task(t).unknown :
                StatsKey(p) \in DOMAIN COL[t[2]] =>
                    /\ COL[t[2]][StatsKey(p)][CountField(p)] = None
                    /\ COL[t[2]][StatsKey(p)].updated_at = t[1]

PageErrs == {"new_page", "page_close"}

Stopped == main_pc \in {"exiting", "terminated"}

\* C4: a failure to open or to close the Instagram page does not end the
\* account's task (its remaining platforms are attempted and its update
\* written), and does not stop the scheduler loop.
C4_PageFailureContained ==
    \A t \in TaskIds :
        Task(t).err \in PageErrs => Task(t).pc # "failed" /\ ~Stopped

\* C5: when update_one fails for one account, no other task of the batch is
\* kept from its write and the scheduler loop does not terminate.
C5_WriteFailureContained ==
    (\E t \in TaskIds : Task(t).err = "update_one") =>
        /\ ~Stopped
        /\ \A u \in TaskIds : Task(u).pc # "cancelled"

Calls(trace) == Cardinality({i \in DOMAIN trace : trace[i][1] = "call"})

Sleeps(trace) == Cardinality({i \in DOMAIN trace : trace[i][1] = "sleep"})

AlwaysFails(script) == \A i \in DOMAIN script : script[i] = Exc

\* C6: a wrapper with max_attempts = n, on an operation that raises on every
\* call, calls it exactly n times and returns None without raising; for
\* retry_async and for _ig_retry.
C6_ExhaustedRetryReturnsNone ==
    (rt.called /\ AlwaysFails(rt.script)) =>
        /\ Calls(rt.out.trace) = rt.times
        /\ rt.out.ret = None
        /\ ~rt.out.raised

\* C6 witness: retry_async(times=RETRIES) has been called on an operation
\* that always raises.
C6_Witness ==
    /\ rt.called
    /\ rt.kind = "retry_async"
    /\ rt.times = RETRIES
    /\ AlwaysFails(rt.script)
    /\ Calls(rt.out.trace) = RETRIES

FailsThenSucceeds(script) ==
    /\ Len(script) >= 1
    /\ \A i \in 1..(Len(script) - 1) : script[i] = Exc
    /\ script[Len(script)] # Exc

\* C7: a wrapper with max_attempts = n, on an operation that raises n - 1
\* times and then succeeds, returns the success value after exactly n - 1
\* sleeps: the trace is call, sleep, call, ..., sleep, call, with a sleep
\* after each failed call and none after the successful one.
C7_SucceedsOnLastAttempt ==
    (rt.called /\ FailsThenSucceeds(rt.script)) =>
        LET n == rt.times
            trace == rt.out.trace
        IN /\ rt.out.ret = rt.script[n]
           /\ ~rt.out.raised
           /\ Sleeps(trace) = n - 1
           /\ Len(trace) = 2 * n - 1
           /\ \A i \in 1..n : trace[2 * i - 1] = <<"call", i>>
           /\ \A i \in 1..(n - 1) : trace[2 * i] = <<"sleep", i>>

\* C7 witness: retry_async(times=RETRIES) has returned a count at its last
\* attempt.
C7_Witness ==
    /\ rt.called
    /\ rt.kind = "retry_async"
    /\ rt.times = RETRIES
    /\ FailsThenSucceeds(rt.script)
    /\ rt.out.ret = MaxCount
    /\ Sleeps(rt.out.trace) = RETRIES - 1

\* C8: after a cycle of duration D the scheduler sleeps max(0, LOOP_EVERY - D):
\* never a negative time, and zero when D >= LOOP_EVERY.
C8_SleepIsMaxZero ==
    main_pc = "sleep" =>
        /\ sleep_arg >= 0
        /\ sleep_arg = (IF cycle_elapsed >= LOOP_EVERY THEN 0
                        ELSE LOOP_EVERY - cycle_elapsed)

\* C8 witness: a cycle took longer than LOOP_EVERY and the sleep is zero.
C8_Witness ==
    /\ main_pc = "sleep"
    /\ cycle_elapsed > LOOP_EVERY
    /\ sleep_arg = 0

\* C9: a task inside gather_followers holds a slot, the free slots are
\* CONCURRENCY less the slots held, and once a batch is over, by returns,
\* exceptions or cancellation, all CONCURRENCY slots are free again.
C9_SlotsHeldAndReturned ==
    /\ \A t \in TaskIds : Task(t).pc \in Inside => Task(t).slot
    /\ sem = CONCURRENCY - Cardinality(Holders)
    /\ BatchOver => sem = CONCURRENCY

\* C9 witness: a batch is over in which a task ended with an exception and
\* another one returned.
C9_Witness ==
    /\ BatchOver
    /\ \E t \in TaskIds : Task(t).pc = "failed"
    /\ \E t \in TaskIds : Task(t).pc = "done"
    /\ sem = CONCURRENCY

\* C10: in tiktok_followers, _tk_api is called if and only if _tk_html
\* returned None; a count returned by _tk_html, 0 included, is the result;
\* and the result is None if both return None.
C10_FirstNonUnknownWins ==
    tkx.called =>
        /\ tkx.out.api_called <=> (tkx.out.html = None)
        /\ tkx.out.html # None => tkx.out.ret = tkx.out.html
        /\ (tkx.out.html = None /\ tkx.out.api = None) => tkx.out.ret = None

Platforms == {"tiktok", "instagram", "youtube"}

HandleKey(platform) ==
    CASE platform = "tiktok" -> "tiktok_id"
      [] platform = "instagram" -> "instagram_id"
      [] OTHER -> "youtube_id"

\* the keys of document d a cycle may write
Changeable(d) ==
    {StatsKey(p) : p \in {q \in Platforms : Truthy(Get(d, HandleKey(q)))}}
        \cup {"youtube_channel_id", "last_updated"}

\* C11: no step changes, adds or removes a key of an account's document
\* other than the stats of the platforms the account has a handle for, the
\* cached YouTube channel id and last_updated: the stats of a platform with
\* no handle, _id, email, the handles and verified stay as they are.
C11_MergeUpdateFrame ==
    [][\A a \in AllAccounts :
         \A key \in (DOMAIN COL[a] \cup DOMAIN COL'[a]) \ Changeable(COL[a]) :
            /\ key \in DOMAIN COL[a]
            /\ key \in DOMAIN COL'[a]
            /\ COL'[a][key] = COL[a][key]]_vars

\* an account with a handle for YouTube only has been written in this cycle
C11_Witness ==
    /\ cycle >= 1
    /\ Registered(2) = {"youtube"}
    /\ COL[2].last_updated = cycle
    /\ "youtube_stats" \in DOMAIN COL[2]
    /\ "tiktok_stats" \notin DOMAIN COL[2]
    /\ "instagram_stats" \notin DOMAIN COL[2]

\* the tasks of this cycle that have returned from gather_followers with a
\* count from each of the three extractors
GotAllThree ==
    {t \in TaskIds : /\ t[1] = cycle
                     /\ Task(t).pc = "done"
                     /\ DOMAIN Task(t).returned = Platforms
                     /\ \A p \in Platforms : Task(t).returned[p] # None}

\* C12: when the three extractors of an account with the three handles have
\* returned counts in a cycle, the task has issued exactly one update_one and
\* the document holds each count under its platform's stats with this cycle's
\* timestamp, and this cycle's last_updated.
C12_AllThreeStored ==
    \A t \in GotAllThree :
        LET d == COL[t[2]]
        IN /\ Task(t).updates = 1
           /\ d.last_updated = t[1]
           /\ \A p \in Platforms :
                /\ StatsKey(p) \in DOMAIN d
                /\ d[StatsKey(p)][CountField(p)] = Task(t).returned[p]
                /\ d[StatsKey(p)].updated_at = t[1]

\* in the second cycle, with counts that differ from the first cycle's
C12_Witness ==
    \E t \in GotAllThree :
        /\ t[1] = 2
        /\ Task(t).returned["instagram"] = 1
        /\ Task(t).returned["tiktok"] = 0
        /\ Task(t).returned["youtube"] = 1

\* C13: when a task's YouTube section has resolved the handle to a channel
\* id by a search call, the task's update stores that id as
\* youtube_channel_id, also when yt_subscribers then returned None.
C13_ResolvedChannelIdCached ==
    \A t \in TaskIds :
        (t[1] = cycle /\ Task(t).pc = "done" /\ Task(t).resolved # None) =>
            Get(COL[t[2]], "youtube_channel_id") = Task(t).resolved

\* the positions of a task inside platform's extraction
Section(platform) ==
    CASE platform = "tiktok" -> {"tiktok"}
      [] platform = "instagram" -> {"ig_new_page", "ig_fetch", "ig_close"}
      [] OTHER -> {"youtube"}

InFlight(a, platform) ==
    {t \in TaskIds : t[2] = a /\ Task(t).pc \in Section(platform)}

\* C16: for every account and platform at most one task is inside that
\* platform's extraction for that account, in every interleaving and across
\* consecutive cycles.
C16_OneExtractionPerPair ==
    \A a \in Accounts : \A p \in Platforms : Cardinality(InFlight(a, p)) <= 1

\* the second cycle's task of an account is inside an extraction the first
\* cycle's task of the account has been through, with another account's
\* task inside an extraction at the same time
C16_Witness ==
    /\ cycle = 2
    /\ Task(<<1, 1>>).pc = "done"
    /\ InFlight(1, "instagram") = {<<2, 1>>}
    /\ \E a \in Accounts \ {1} : \E p \in Platforms : InFlight(a, p) # {}

\* C17: with no shutdown signal the scheduler loop never reaches a terminal
\* state, whichever external calls fail: main neither raises nor returns.
C17_LoopNeverTerminal == main_pc \notin {"exiting", "terminated"}
\* C14: the YouTube section calls yt_channel_id exactly when the document
\* caches no channel id; it calls yt_subscribers only with a channel id at
\* hand; and when the search returns None it makes no yt_subscribers call
\* and its result is None.
C14_SearchIffNoCachedId ==
    ytx.called =>
        /\ ytx.out.search_called <=> (ytx.cached = None)
        /\ ytx.out.stats_called => ytx.out.cid # None
        /\ (ytx.out.search_called /\ SearchReturn = None) =>
                (~ytx.out.stats_called /\ ytx.out.subs = None)

\* the two sides: a pass with a cached id that fetched a count without a
\* search is over here, and a pass whose search returned None exists
C14_Witness ==
    /\ ytx.called
    /\ ytx.cached # None
    /\ ~ytx.out.search_called
    /\ ytx.out.stats_called
    /\ ytx.out.subs = 1

C14_WitnessUnresolved ==
    /\ ytx.called
    /\ ytx.out.search_called
    /\ ytx.out.cid = None
    /\ ~ytx.out.stats_called
\* C15: once a shutdown signal has been handled no new cycle is dispatched,
\* and the browser context is closed only when no task of the batch is
\* pending or inside gather_followers any more, so that no task goes on
\* with a closed context.
C15_ShutdownDrainsBeforeClose ==
    [][/\ ig_ctx # "open" => cycle' = cycle
       /\ ig_ctx' = "closed" =>
            \A k \in DOMAIN tasks' : \A a \in DOMAIN tasks'[k] :
                tasks'[k][a].pc \notin Live]_vars
\* the texts d.fS: digits, a point, one digit, a suffix of k, m, b
PointSuffixForm(txt) ==
    /\ Len(txt) >= 4
    /\ Lower(txt[Len(txt)]) \in {"k", "m", "b"}
    /\ IsDigit(txt[Len(txt) - 1])
    /\ txt[Len(txt) - 2] = "."
    /\ \A i \in 1..(Len(txt) - 3) : IsDigit(txt[i])

\* C18: for a text d.fS the parser returns d.f times the factor of S, which
\* is the number the digits df write times a tenth of the factor:
\* digits("1.2M") = 1200000.
C18_PointBeforeSuffixIsFraction ==
    (dgx.called /\ PointSuffixForm(dgx.txt)) =>
        dgx.out = Norm(DigitsValue(SelectSeq(dgx.txt, IsDigit)),
                       SuffixPower(Lower(dgx.txt[Len(dgx.txt)])) - 1)

NumericChars == DigitChars \cup {".", ","}

\* the texts of digit groups with commas between, by the index of the last
\* digit: no suffix, and only non-numeric text after it
CommaGroupsForm(txt, last) ==
    /\ last \in DOMAIN txt
    /\ IsDigit(txt[1])
    /\ IsDigit(txt[last])
    /\ \A i \in 1..last : IsDigit(txt[i]) \/ (txt[i] = "," /\ IsDigit(txt[i + 1]))
    /\ \A i \in (last + 1)..Len(txt) : txt[i] \notin NumericChars
    /\ LET blank == RunEnd(Cleaned(txt), last + 1, {" "})
       IN blank < Len(txt) => Cleaned(txt)[blank + 1] \notin {"k", "m", "b"}

\* C19: for a text of digit groups separated by commas, with no suffix and
\* with or without text after it, the parser returns the integer the digits
\* write with the commas removed: digits("12,345") = 12345.
C19_CommaIsThousandsSeparator ==
    \A last \in DOMAIN dgx.txt :
        (dgx.called /\ CommaGroupsForm(dgx.txt, last)) =>
            dgx.out = Norm(DigitsValue(SelectSeq(SubSeq(dgx.txt, 1, last), IsDigit)), 0)
\* C20: an Instagram fetch sends the credentials exactly when its
\* navigation found the session not authenticated: each _login_if_needed
\* that ends has submitted them iff the session was not valid at the goto
\* before it; a fetch that starts with a valid session never logs in; and a
\* fetch that starts without one returns a count only after a login.
C20_LoginIffNotAuthenticated ==
    /\ igx.pc = "wait_selector" => (igx.submitted <=> ~igx.authenticated)
    /\ igx.session0 = "valid" => igx.logins = 0
    /\ (igx.pc = "returned" /\ igx.ret # None /\ igx.session0 # "valid") =>
            igx.logins >= 1

\* a fetch that started on an expired session has logged in once, on its
\* first navigation, and has returned a count
C20_Witness ==
    /\ igx.pc = "returned"
    /\ igx.session0 = "expired"
    /\ igx.session = "valid"
    /\ igx.logins = 1
    /\ igx.ret = 1
\* the positions inside _ensure_profile
EnsurePcs == {"goto", "cookies", "login", "wait_selector"}

\* C21: one call of instagram_followers makes at most RETRIES * RETRIES
\* navigations; an exception inside _ensure_profile, its last attempt
\* included, never ends the attempt of instagram_followers that called it,
\* which goes on to the follower element; and the call ends with a count or
\* None.
C21_NestedRetriesBounded ==
    [][/\ igx'.navigations <= RETRIES * RETRIES
       /\ igx.pc \in EnsurePcs =>
            /\ igx'.pc \in EnsurePcs \cup {"inner_text"}
            /\ igx'.outer = igx.outer
       /\ igx'.pc = "returned" => igx'.ret \in {None} \cup Counts]_vars

\* every goto of the RETRIES * RETRIES has failed: each attempt of
\* instagram_followers has read the follower element of a page that never
\* loaded, and the call has returned None
C21_Witness ==
    /\ igx.pc = "returned"
    /\ igx.navigations = RETRIES * RETRIES
    /\ igx.navigations > RETRIES
    /\ igx.outer = RETRIES
    /\ igx.page = "blank"
    /\ igx.ret = None
====
